---- MODULE Spec2Model ----
(***************************************************************************)
(* Model of oracle_select: DB.select, DB.select_iter and the two row       *)
(* factories (select.py), format_list and process_monitor (utils.py,       *)
(* utils/format_list.py).  The driver (cx_Oracle) is the environment: a    *)
(* query has a result set, and each driver call may raise.                 *)
(***************************************************************************)
EXTENDS Integers, Sequences, FiniteSets, TLC

\* ---------------------------------------------------------------- bounds
\* Largest result set of a query.
MaxRows == 4
\* Largest fetch / fetch_size argument.
MaxFetch == 3
\* Largest max_rows argument.
MaxMaxRows == 4
\* Largest process instance id handed to process_monitor.
MaxProcs == 2
\* Largest freq argument, in seconds.
MaxFreq == 2
\* Largest timeout argument, in seconds.
MaxTimeout == 2
\* Longest time a sleep oversleeps, in seconds.
MaxDelay == 1
\* Longest list of distinct items handed to format_list.
MaxItems == 3
MaxCode == 19

\* ------------------------------------------------------- Python values
\* None, where an integer argument may be None (max_rows); as a timeout,
\* the integer -1.
None == 0 - 1

truthy(x) == x # None /\ x # 0

Range(s) == {s[j] : j \in DOMAIN s}

Min(a, b) == IF a <= b THEN a ELSE b

RECURSIVE Concat(_)
Concat(ss) == IF ss = <<>> THEN <<>> ELSE Head(ss) \o Concat(Tail(ss))

RECURSIVE Count(_, _)
Count(s, x) ==
    IF s = <<>> THEN 0
    ELSE (IF Head(s) = x THEN 1 ELSE 0) + Count(Tail(s), x)

\* Driver values.  A column value is a plain value, a LOB handle, or the
\* content read from a LOB handle.
Plain(n) == [kind |-> "plain", id |-> n]
Lob(n) == [kind |-> "lob", id |-> n]
Content(n) == [kind |-> "content", id |-> n]

\* Class objects, and the class of each object.
ObjectClass == [kind |-> "class", id |-> 0]
TypeClass == [kind |-> "class", id |-> 1]
cx_Oracle_LOB == [kind |-> "class", id |-> 2]
cx_Oracle_CLOB == [kind |-> "class", id |-> 3]
IntClass == [kind |-> "class", id |-> 4]
StrClass == [kind |-> "class", id |-> 5]

ClassOf(o) ==
    CASE o.kind = "class" -> TypeClass
      [] o.kind = "lob" -> cx_Oracle_LOB
      [] o.kind = "content" -> StrClass
      [] OTHER -> IntClass

\* isinstance(o, c): c is the class of o or a base of it (object).
isinstance(o, c) == c \in {ClassOf(o), ObjectClass}

\* ------------------------------------------------------------ queries
\* cursor.description of a query: the column names as the driver reports
\* them; a statement that is no query has no description.
Columns == <<"ID", "DOC">>
NoDescription == <<>>

\* str.lower() on the column names the model uses.
lower(s) ==
    CASE s = "ID" -> "id"
      [] s = "DOC" -> "doc"
      [] s = "PRCSINSTANCE" -> "prcsinstance"
      [] s = "RUNSTATUS" -> "runstatus"
      [] OTHER -> s

\* Row n of a result set: its id, and a document that is a LOB handle
\* (one handle per row) or a plain value.
RawRow(n, isLob) == <<Plain(n), IF isLob THEN Lob(n) ELSE Plain(0)>>

ResultSets ==
    UNION {{[j \in 1..n |-> RawRow(j, j \in lobs)] : lobs \in SUBSET (1..n)}
              : n \in 0..MaxRows}

Queries ==
    {[desc |-> Columns, rs |-> rs] : rs \in ResultSets}
        \cup {[desc |-> NoDescription, rs |-> <<>>]}

\* ------------------------------------------------------ row factories
\* The test of createRow: it names the classes, not the argument.
is_lob(arg) == isinstance(cx_Oracle_LOB, cx_Oracle_CLOB)

\* arg.read() is defined on LOB handles only.
can_read(arg) == arg.kind = "lob"

read_arg(arg) == IF is_lob(arg) THEN Content(arg.id) ELSE arg

read_args(args) == [j \in DOMAIN args |-> read_arg(args[j])]

\* The handles createRow reads, in order, and whether a read raises.
reads_of(args) ==
    LET sel == SelectSeq(args, LAMBDA a : is_lob(a) /\ can_read(a))
    IN [j \in DOMAIN sel |-> sel[j].id]

read_raises(args) == \E j \in DOMAIN args : is_lob(args[j]) /\ ~can_read(args[j])

col_names(desc) == [j \in DOMAIN desc |-> lower(desc[j])]

\* makeDictFactory(cursor).createRow: dict(zip(col_names, read_args)).
dictCreateRow(desc, args) ==
    LET names == col_names(desc)
        vals == read_args(args)
    IN [n \in Range(names) |-> vals[CHOOSE j \in DOMAIN names : names[j] = n]]

\* makeNamedTupleFactory(cursor).createRow: record._make(read_args).
namedTupleCreateRow(desc, args) ==
    [fields |-> col_names(desc), vals |-> read_args(args)]

createRow(rowtype, desc, args) ==
    IF rowtype = "dict" THEN dictCreateRow(desc, args)
    ELSE namedTupleCreateRow(desc, args)

\* The values a row holds, whatever its shape.
RowValues(row) ==
    IF "vals" \in DOMAIN row THEN Range(row.vals) ELSE Range(row)

\* The driver builds every fetched row with the row factory.
build(rowtype, desc, raw) == [j \in DOMAIN raw |-> createRow(rowtype, desc, raw[j])]

build_reads(raw) == Concat([j \in DOMAIN raw |-> reads_of(raw[j])])

build_raises(raw) == \E j \in DOMAIN raw : read_raises(raw[j])

\* copy.deepcopy of a list of rows: an equal list of equal rows.
deepcopy(r) == [j \in DOMAIN r |-> r[j]]

\* ------------------------------------------------------------ handles
NoHandles ==
    [conn |-> "none", connCloses |-> 0, cur |-> "none", curCloses |-> 0,
     schema |-> "unset", executed |-> FALSE, schemaAtExecute |-> "unset"]

connect(h) == [h EXCEPT !.conn = "open"]

set_schema(h, schema) == [h EXCEPT !.schema = schema]

cursor(h) == [h EXCEPT !.cur = "open"]

execute(h) == [h EXCEPT !.executed = TRUE, !.schemaAtExecute = h.schema]

close_cursor(h) == [h EXCEPT !.cur = "closed", !.curCloses = @ + 1]

close_conn(h) == [h EXCEPT !.conn = "closed", !.connCloses = @ + 1]

\* fetchmany(n) and fetchall() from cursor position pos.
fetchmany(rs, pos, n) == SubSeq(rs, pos + 1, Min(pos + n, Len(rs)))

fetchall(rs, pos) == SubSeq(rs, pos + 1, Len(rs))

\* --------------------------------------------------------- DB.select
\* Where a driver call of one DB call raises.
FailStages == {"none", "connect", "cursor", "execute", "fetch"}

Raise(e, p, hh) ==
    [exc |-> e, ret |-> <<>>, h |-> hh, built |-> <<>>, reads |-> <<>>, path |-> p]

\* The handler without its db.close().
select_execute_except_leak(hh) == close_cursor(hh)

\* except Exception: c.close(); db.close(); raise
select_execute_except(hh) == close_conn(close_cursor(hh))

\* finally: del r; c.close(); db.close().  del r raises when the fetch
\* never bound r, and the two closes are then not reached.
select_finally(hh, rBound) ==
    IF rBound THEN [exc |-> "None", h |-> close_conn(close_cursor(hh))]
    ELSE [exc |-> "UnboundLocalError", h |-> hh]

\* The fetch without its fetchall branch.
select_fetch_many(q, fetch) == fetchmany(q.rs, 0, fetch)

\* if fetch: c.fetchmany(fetch) else: c.fetchall()
select_fetch(q, fetch) ==
    IF fetch # 0 THEN fetchmany(q.rs, 0, fetch) ELSE fetchall(q.rs, 0)

select(schema, q, fail, fetch, rowtype) ==
    IF fail = "connect" THEN Raise("DatabaseError", "connect_error", NoHandles)
    ELSE LET h1 == set_schema(connect(NoHandles), schema) IN
    IF fail = "cursor" THEN Raise("DatabaseError", "cursor_error", h1)
    ELSE LET h2 == cursor(h1) IN
    IF fail = "execute"
    THEN Raise("DatabaseError", "execute_error", select_execute_except(h2))
    ELSE LET h3 == execute(h2) IN
    IF q.desc = NoDescription THEN Raise("TypeError", "rowfactory_error", h3)
    ELSE LET raw == select_fetch(q, fetch)
             failed == fail = "fetch" \/ build_raises(raw)
             fin == select_finally(h3, ~failed)
             r == build(rowtype, q.desc, raw)
         IN IF failed
            THEN Raise(IF fin.exc # "None" THEN fin.exc ELSE "DatabaseError",
                       "fetch_error", fin.h)
            ELSE [exc |-> fin.exc, ret |-> deepcopy(r), h |-> fin.h,
                  built |-> r, reads |-> build_reads(raw), path |-> "returned"]

\* ---------------------------------------------------- DB.select_iter
IterEnd(e, p, hh, ps, i) ==
    [state |-> "finished", exc |-> e, path |-> p, h |-> hh, batch |-> <<>>,
     built |-> <<>>, reads |-> <<>>, pos |-> ps, i |-> i, fetched |-> 0]

\* One more fetchmany call made in this run.
Fetched(o) == [o EXCEPT !.fetched = 1]

\* except Exception: c.close(); db.close(); raise
iter_execute_except(hh) == close_conn(close_cursor(hh))

\* The finally block without its db.close().
iter_finally_leak(hh) == close_cursor(hh)

\* finally: c.close(); db.close()
iter_finally(hh) == close_conn(close_cursor(hh))

\* if max_rows: while i <= max_rows  /  else: while True
loop_test(max_rows, i) == IF truthy(max_rows) THEN i <= max_rows ELSE TRUE

\* A batch one row long taken for the end of the result set.
not_results_short(results) == Len(results) <= 1

\* if not results: break
not_results(results) == results = <<>>

\* One run of the generator from the loop head to its next yield or end.
iter_loop(q, a, hh, ps, i, failFetch) ==
    IF ~loop_test(a.max_rows, i)
    THEN IterEnd("StopIteration", "exhausted", iter_finally(hh), ps, i)
    ELSE LET raw == fetchmany(q.rs, ps, a.fetch_size) IN
    IF failFetch \/ build_raises(raw)
    THEN Fetched(IterEnd("DatabaseError", "fetch_error", iter_finally(hh), ps, i))
    ELSE IF not_results(raw)
    THEN Fetched(IterEnd("StopIteration", "exhausted", iter_finally(hh),
                         ps + Len(raw), i))
    ELSE LET r == build("dict", q.desc, raw)
         IN [state |-> "suspended", exc |-> "None", path |-> "yielded", h |-> hh,
             batch |-> deepcopy(r), built |-> r, reads |-> build_reads(raw),
             pos |-> ps + Len(raw),
             i |-> IF truthy(a.max_rows) THEN i + Len(raw) ELSE i,
             fetched |-> 1]

\* The first run: from the top of the function body to the first yield.
iter_start(q, a, fail) ==
    IF fail = "connect"
    THEN IterEnd("DatabaseError", "connect_error", NoHandles, 0, 0)
    ELSE LET h1 == connect(NoHandles) IN
    IF fail = "cursor" THEN IterEnd("DatabaseError", "cursor_error", h1, 0, 0)
    ELSE LET h2 == cursor(h1) IN
    IF fail = "execute"
    THEN IterEnd("DatabaseError", "execute_error", iter_execute_except(h2), 0, 0)
    ELSE LET h3 == execute(h2) IN
    IF q.desc = NoDescription
    THEN IterEnd("TypeError", "rowfactory_error", h3, 0, 0)
    ELSE iter_loop(q, a, h3, 0, 0, fail = "fetch")

\* -------------------------------------------------------- format_list
\* A string is the sequence of its characters.
\* Items: text (a str) or a number (an int).
StrItem(chars) == [t |-> "str", chars |-> chars, n |-> 0]
IntItem(n) == [t |-> "int", chars |-> <<>>, n |-> n]

Digit(d) ==
    CASE d = 0 -> "0" [] d = 1 -> "1" [] d = 2 -> "2" [] d = 3 -> "3"
      [] d = 4 -> "4" [] d = 5 -> "5" [] d = 6 -> "6" [] d = 7 -> "7"
      [] d = 8 -> "8" [] OTHER -> "9"

RECURSIVE Digits(_)
Digits(n) == IF n < 10 THEN <<Digit(n)>> ELSE Append(Digits(n \div 10), Digit(n % 10))

\* str(n) of an int.
str(n) == IF n < 0 THEN <<"-">> \o Digits(0 - n) ELSE Digits(n)

\* Every item quoted, numbers too.
format_item_quoted(item) ==
    <<"'">> \o (IF item.t = "str" THEN item.chars ELSE str(item.n)) \o <<"'">>

\* f"'{item}'" if isinstance(item, str) else str(item)
format_item(item) ==
    IF item.t = "str" THEN <<"'">> \o item.chars \o <<"'">> ELSE str(item.n)

\* ', '.join(parts), by halves.
RECURSIVE join_range(_, _, _)
join_range(parts, lo, hi) ==
    IF lo > hi THEN <<>>
    ELSE IF lo = hi THEN parts[lo]
    ELSE LET mid == (lo + hi) \div 2
         IN join_range(parts, lo, mid) \o <<",", " ">> \o join_range(parts, mid + 1, hi)

join(parts) == join_range(parts, 1, Len(parts))

\* The list limit of format_list.
LIMIT == 1000

\* The limit test with >= for >.
over_limit_ge(items) == Len(items) >= LIMIT

\* if len(items) > 1000
over_limit(items) == Len(items) > LIMIT

NoResult == [exc |-> "ValueError", isStr |-> FALSE, value |-> <<>>]

\* utils/format_list.py
format_list(items, parenthesis) ==
    IF over_limit(items) THEN NoResult
    ELSE LET formatted_list == join([j \in DOMAIN items |-> format_item(items[j])])
         IN [exc |-> "None", isStr |-> TRUE,
             value |-> IF parenthesis THEN <<"(">> \o formatted_list \o <<")">>
                       ELSE formatted_list]

\* utils.py: the same function once more.
utils_format_list(items, parenthesis) ==
    IF over_limit(items) THEN NoResult
    ELSE LET formatted_list == join([j \in DOMAIN items |-> format_item(items[j])])
         IN [exc |-> "None", isStr |-> TRUE,
             value |-> IF parenthesis THEN <<"(">> \o formatted_list \o <<")">>
                       ELSE formatted_list]

\* The items of the short lists, and the long lists (one item repeated).
Items == {StrItem(<<"a">>), StrItem(<<"3">>), IntItem(1), IntItem(12)}

ShortLists == UNION {[1..n -> Items] : n \in 0..MaxItems}

LongLists ==
    {[j \in 1..n |-> it] : n \in {LIMIT - 1, LIMIT, LIMIT + 1, LIMIT + MaxItems},
                           it \in {StrItem(<<"a">>), IntItem(12)}}

\* The lists of the docstring and of the examples: ['a', 'b', 'c'],
\* [1, 2, '3'] and [1, 2, 3, '4'].
ExampleLists ==
    {<<StrItem(<<"a">>), StrItem(<<"b">>), StrItem(<<"c">>)>>,
     <<IntItem(1), IntItem(2), StrItem(<<"3">>)>>,
     <<IntItem(1), IntItem(2), IntItem(3), StrItem(<<"4">>)>>}

\* ---------------------------------------------------- process_monitor
WORKING_STATUSES == {5, 6, 7, 11, 14, 15, 16, 18}
COMPLETE_STATUSES == {9}

\* The run status codes the job table holds in the model.
Codes == {3, 7, 9}

\* int(code) of a column value.
int(v) == v.id

\* A classification that knows the listed codes only.
set_status_listed(code) ==
    IF int(code) \in COMPLETE_STATUSES THEN "Finished"
    ELSE IF int(code) \in WORKING_STATUSES THEN "Working"
    ELSE "Unknown"

set_status(code) ==
    IF int(code) \in COMPLETE_STATUSES THEN "Finished"
    ELSE IF int(code) \in WORKING_STATUSES THEN "Working"
    ELSE "Failed"

\* if isinstance(processes, (str, int)): processes = [processes]
normalize(processes) ==
    IF processes.isList THEN processes.ids ELSE <<processes.id>>

PmColumns == <<"PRCSINSTANCE", "RUNSTATUS">>

\* What prepared_sql selects from a job table (process id -> run status,
\* for the ids the table holds): the rows of the requested ids, by id.
RECURSIVE rows_by_id(_, _, _)
rows_by_id(table, ids, n) ==
    IF n > MaxProcs THEN <<>>
    ELSE (IF n \in DOMAIN table /\ n \in ids
          THEN <<(<<Plain(n), Plain(table[n])>>)>> ELSE <<>>)
         \o rows_by_id(table, ids, n + 1)

pm_query(table, ids) == [desc |-> PmColumns, rs |-> rows_by_id(table, Range(ids), 1)]

JobTables == UNION {[present -> Codes] : present \in SUBSET (1..MaxProcs)}

\* pd.DataFrame(rows), then df['status'] = df.runstatus.apply(set_status)
add_status(rows) ==
    [j \in DOMAIN rows |->
        [prcsinstance |-> rows[j]["prcsinstance"], runstatus |-> rows[j]["runstatus"],
         status |-> set_status(rows[j]["runstatus"])]]

\* The branch of the loop body a status table takes.
branch(df) ==
    IF \A j \in DOMAIN df : df[j].status = "Finished" THEN "Complete"
    ELSE IF \E j \in DOMAIN df : df[j].status = "Failed" THEN "Failed"
    ELSE IF \E j \in DOMAIN df : df[j].status = "Working" THEN "Working"
    ELSE "SomethingWentWrong"

\* while time.time() - start <= timeout
in_time(now, start, timeout) == now - start <= timeout

\* A global name of utils.py resolves only if the module's namespace (or
\* builtins) binds it; utils.py itself imports nothing at module level.
FreeNames == {"pd", "TimeOutError"}

resolves(name, bound) == name \in bound

\* -------------------------------------------------------------- state
VARIABLES
    self,       \* the DB object: its schema
    op,         \* the call under way: "idle" before any
    query,      \* what the statement of the call selects
    args,       \* the arguments of the call
    h,          \* the connection and cursor the call opened
    exc,        \* the exception the last step raised, "None" if none
    ret,        \* what select returned
    path,       \* the exit path the call took
    built,      \* the rows the row factory built during the call
    reads,      \* the LOB handles read during the call, in order
    genState,   \* the generator of select_iter
    pos,        \* rows the cursor has delivered
    cum,        \* the local i of select_iter
    yielded,    \* the batches the generator yielded, in order
    afterEnd,   \* next() was called on the finished generator
    fetches,    \* the fetchmany calls the generator made
    clock,      \* time.time()
    pm,         \* the process_monitor call
    fmt         \* the format_list call

vars ==
    <<self, op, query, args, h, exc, ret, path, built, reads, genState, pos,
      cum, yielded, afterEnd, fetches, clock, pm, fmt>>

dbVars == <<self, query, args, h, exc, ret, path, built, reads>>

iterVars == <<genState, pos, cum, yielded, afterEnd, fetches>>

Schemas == {"None", "APP"}

NoArgs == [fetch |-> 0, rowtype |-> "none", fetch_size |-> 0, max_rows |-> None]

NoPm ==
    [state |-> "none", ids |-> <<>>, freq |-> 0, timeout |-> 0,
     on_success |-> FALSE, on_failure |-> FALSE, bound |-> {}, start |-> 0,
     polls |-> 0, sleeps |-> 0, lastPollAt |-> 0, table |-> <<>>, fail |-> "none",
     df |-> <<>>, status |-> "none", successCalls |-> 0, failureCalls |-> 0,
     cbArg |-> <<>>, exit |-> "none", outcome |-> "None", ret |-> <<>>]

NoFmt ==
    [state |-> "none", module |-> "none", items |-> <<>>, parenthesis |-> TRUE,
     result |-> NoResult]

Init ==
    /\ self \in [schema : Schemas]
    /\ op = "idle"
    /\ query = [desc |-> NoDescription, rs |-> <<>>]
    /\ args = NoArgs
    /\ h = NoHandles
    /\ exc = "None"
    /\ ret = <<>>
    /\ path = "none"
    /\ built = <<>>
    /\ reads = <<>>
    /\ genState = "none"
    /\ pos = 0
    /\ cum = 0
    /\ yielded = <<>>
    /\ afterEnd = FALSE
    /\ fetches = 0
    /\ clock = 0
    /\ pm = NoPm
    /\ fmt = NoFmt

\* db.select(sql, binds, fetch, rowtype), from call to return or raise.
Select ==
    \E q \in Queries, fail \in FailStages, fetch \in 0..MaxFetch,
       rowtype \in {"dict", "namedtuple"} :
        LET o == select(self.schema, q, fail, fetch, rowtype) IN
        /\ op = "idle"
        /\ op' = "select"
        /\ query' = q
        /\ args' = [NoArgs EXCEPT !.fetch = fetch, !.rowtype = rowtype]
        /\ h' = o.h
        /\ exc' = o.exc
        /\ ret' = o.ret
        /\ path' = o.path
        /\ built' = o.built
        /\ reads' = o.reads
        /\ UNCHANGED <<self, iterVars, clock, pm, fmt>>

\* select_iter as a plain function: the body runs to its first yield at
\* the call itself.
SelectIterEager ==
    \E q \in Queries, fs \in 1..MaxFetch, mr \in {None} \cup (0..MaxMaxRows),
       fail \in FailStages :
        LET a == [NoArgs EXCEPT !.fetch_size = fs, !.max_rows = mr]
            o == iter_start(q, a, fail)
        IN
        /\ op = "idle"
        /\ op' = "select_iter"
        /\ query' = q
        /\ args' = a
        /\ genState' = o.state
        /\ h' = o.h
        /\ exc' = o.exc
        /\ path' = o.path
        /\ pos' = o.pos
        /\ cum' = o.i
        /\ built' = o.built
        /\ reads' = o.reads
        /\ yielded' = IF o.state = "suspended" THEN <<o.batch>> ELSE <<>>
        /\ fetches' = o.fetched
        /\ UNCHANGED <<self, ret, afterEnd, clock, pm, fmt>>

\* db.select_iter(sql, binds, fetch_size, max_rows): makes the generator.
SelectIter ==
    \E q \in Queries, fs \in 1..MaxFetch, mr \in {None} \cup (0..MaxMaxRows) :
        /\ op = "idle"
        /\ op' = "select_iter"
        /\ query' = q
        /\ args' = [NoArgs EXCEPT !.fetch_size = fs, !.max_rows = mr]
        /\ genState' = "created"
        /\ UNCHANGED <<self, h, exc, ret, path, built, reads, pos, cum, yielded,
                       afterEnd, fetches, clock, pm, fmt>>

\* next(gen) on a generator that has not finished.
IterNext ==
    \E fail \in FailStages :
        LET o == IF genState = "created" THEN iter_start(query, args, fail)
                 ELSE iter_loop(query, args, h, pos, cum, fail = "fetch")
        IN
        /\ op = "select_iter"
        /\ genState \in {"created", "suspended"}
        /\ genState = "suspended" => fail \in {"none", "fetch"}
        /\ genState' = o.state
        /\ h' = o.h
        /\ exc' = o.exc
        /\ path' = o.path
        /\ pos' = o.pos
        /\ cum' = o.i
        /\ built' = built \o o.built
        /\ reads' = reads \o o.reads
        /\ yielded' = IF o.state = "suspended" THEN Append(yielded, o.batch)
                      ELSE yielded
        /\ fetches' = fetches + o.fetched
        /\ UNCHANGED <<self, op, query, args, ret, afterEnd, clock, pm, fmt>>

\* next(gen) on a finished generator: StopIteration, nothing runs.
IterNextAfterEnd ==
    /\ op = "select_iter"
    /\ genState = "finished"
    /\ ~afterEnd
    /\ afterEnd' = TRUE
    /\ exc' = "StopIteration"
    /\ UNCHANGED <<self, op, query, args, h, ret, path, built, reads, genState,
                   pos, cum, yielded, fetches, clock, pm, fmt>>

\* gen.close(): GeneratorExit is raised at the yield and runs the finally;
\* a generator that never started just finishes.
IterClose ==
    /\ op = "select_iter"
    /\ genState \in {"created", "suspended"}
    /\ genState' = "finished"
    /\ h' = IF genState = "suspended" THEN iter_finally(h) ELSE h
    /\ exc' = "None"
    /\ path' = "closed"
    /\ UNCHANGED <<self, op, query, args, ret, built, reads, pos, cum, yielded,
                   afterEnd, fetches, clock, pm, fmt>>

\* format_list(items, parenthesis), of either module.
FormatList ==
    \E items \in ShortLists \cup LongLists \cup ExampleLists, parenthesis \in BOOLEAN,
       module \in {"utils", "utils.format_list"} :
        /\ op = "idle"
        /\ op' = "format_list"
        /\ fmt' = [state |-> "done", module |-> module, items |-> items,
                   parenthesis |-> parenthesis,
                   result |-> IF module = "utils"
                              THEN utils_format_list(items, parenthesis)
                              ELSE format_list(items, parenthesis)]
        /\ UNCHANGED <<dbVars, iterVars, clock, pm>>

Processes ==
    {[isList |-> FALSE, id |-> 1, ids |-> <<>>],
     [isList |-> TRUE, id |-> 0, ids |-> [j \in 1..MaxProcs |-> j]]}

\* process_monitor(db, processes, freq, timeout, on_success, on_failure),
\* up to the loop: the id list, prepared_sql, start = time.time().
ProcessMonitor ==
    \E processes \in Processes, freq \in 1..MaxFreq, timeout \in None..MaxTimeout,
       on_success \in BOOLEAN, on_failure \in BOOLEAN, bound \in SUBSET FreeNames :
        /\ op = "idle"
        /\ op' = "process_monitor"
        /\ pm' = [NoPm EXCEPT !.state = "loop", !.ids = normalize(processes),
                              !.freq = freq, !.timeout = timeout,
                              !.on_success = on_success, !.on_failure = on_failure,
                              !.bound = bound, !.start = clock]
        /\ UNCHANGED <<dbVars, iterVars, clock, fmt>>

\* The call ends raising e.
PmRaise(p, e, x) == [p EXCEPT !.state = "done", !.outcome = e, !.exit = x]

\* One pass of the loop body, the job table holding `table` and the sleep
\* taking freq + ds seconds.
PmPoll ==
    \E table \in JobTables, fail \in FailStages, ds \in 0..MaxDelay :
        LET q == pm_query(table, pm.ids)
            o == select(self.schema, q, fail, 0, "dict")
            p0 == [pm EXCEPT !.table = q.rs, !.fail = fail, !.lastPollAt = clock]
            p1 == [p0 EXCEPT !.polls = @ + 1]
            df == add_status(o.ret)
            p2 == [p1 EXCEPT !.df = df, !.status = branch(df)]
        IN
        /\ op = "process_monitor"
        /\ pm.state = "loop"
        /\ in_time(clock, pm.start, pm.timeout)
        /\ IF ~resolves("pd", pm.bound)
           THEN /\ pm' = PmRaise(p0, "NameError", "error")
                /\ UNCHANGED <<clock, dbVars>>
           ELSE /\ query' = q
                /\ args' = [NoArgs EXCEPT !.rowtype = "dict"]
                /\ h' = o.h
                /\ exc' = o.exc
                /\ ret' = o.ret
                /\ path' = o.path
                /\ built' = o.built
                /\ reads' = o.reads
                /\ UNCHANGED self
                /\ IF o.exc # "None"
                   THEN /\ pm' = PmRaise(p1, o.exc, "error")
                        /\ UNCHANGED clock
                   ELSE IF o.ret = <<>>
                   THEN /\ pm' = PmRaise(p1, "AttributeError", "error")
                        /\ UNCHANGED clock
                   ELSE IF branch(df) = "Complete"
                   THEN /\ pm' = [p2 EXCEPT !.state = "done", !.exit = "success",
                                            !.outcome = "returned", !.ret = df,
                                            !.successCalls = IF pm.on_success THEN @ + 1 ELSE @,
                                            !.cbArg = IF pm.on_success THEN df ELSE @]
                        /\ UNCHANGED clock
                   ELSE IF branch(df) = "Failed"
                   THEN /\ pm' = [PmRaise(p2, "Exception", "failure") EXCEPT
                                            !.failureCalls = IF pm.on_failure THEN @ + 1 ELSE @,
                                            !.cbArg = IF pm.on_failure THEN df ELSE @]
                        /\ UNCHANGED clock
                   ELSE IF branch(df) = "Working"
                   THEN /\ pm' = [p2 EXCEPT !.sleeps = @ + 1]
                        /\ clock' = clock + pm.freq + ds
                   ELSE /\ pm' = PmRaise(p2, "Exception", "went_wrong")
                        /\ UNCHANGED clock
        /\ UNCHANGED <<op, iterVars, fmt>>

\* The loop test fails: raise TimeOutError('Timeout reached.')
PmTimeout ==
    /\ op = "process_monitor"
    /\ pm.state = "loop"
    /\ ~in_time(clock, pm.start, pm.timeout)
    /\ pm' = PmRaise(pm, IF resolves("TimeOutError", pm.bound) THEN "TimeOutError"
                         ELSE "NameError", "timeout")
    /\ UNCHANGED <<op, dbVars, iterVars, clock, fmt>>

\* The job rows a poll can return: any run status code for each process.
StatusRows ==
    UNION {{[j \in 1..n |-> <<Plain(j), Plain(codes[j])>>] : codes \in [1..n -> 0..MaxCode]}
              : n \in 0..MaxProcs}

\* The classification of one poll result: set_status on every row, then the
\* branch of the loop body the table takes.
Classify ==
    \E rows \in StatusRows :
        LET df == add_status(build("dict", PmColumns, rows)) IN
        /\ op = "idle"
        /\ op' = "classify"
        /\ pm' = [NoPm EXCEPT !.state = "classified", !.table = rows, !.df = df,
                              !.status = branch(df)]
        /\ UNCHANGED <<dbVars, iterVars, clock, fmt>>

NextDB ==
    \/ Select
    \/ SelectIter
    \/ IterNext
    \/ IterNextAfterEnd
    \/ IterClose

NextPM ==
    \/ ProcessMonitor
    \/ PmPoll
    \/ PmTimeout

Next ==
    \/ NextDB
    \/ NextPM
    \/ FormatList
    \/ Classify

Spec == Init /\ [][Next]_vars

\* The calls of the DB object alone, of process_monitor alone, and of
\* format_list alone.
SpecDB == Init /\ [][NextDB]_vars

SpecPM == Init /\ [][NextPM]_vars

SpecFmt == Init /\ [][FormatList]_vars

\* The classification of poll results alone.
SpecClassify == Init /\ [][Classify]_vars

\* ----------------------------------------------------------- properties
ClosedOnce(hh) ==
    /\ hh.conn = "closed" /\ hh.connCloses = 1
    /\ hh.cur = "closed" /\ hh.curCloses = 1

TotalYielded == Len(Concat(yielded))

\* C1: a select call that returns, or whose execute raises, has closed its
\* cursor and its connection exactly once each when it ends, and an execute
\* error is the error the caller gets.
C1_SelectClosesOnce ==
    (op = "select" /\ path \in {"returned", "execute_error"}) =>
        /\ ClosedOnce(h)
        /\ path = "execute_error" => exc = "DatabaseError"
        /\ path = "returned" => exc = "None"

C1_Witness ==
    /\ op = "select" /\ path = "execute_error"
    /\ exc = "DatabaseError" /\ ClosedOnce(h)

\* C2: when the fetch of select fails, the caller gets the driver's fetch
\* error, and cursor and connection were closed exactly once each.
C2_FetchErrorCleansUp ==
    (op = "select" /\ path = "fetch_error") =>
        exc = "DatabaseError" /\ ClosedOnce(h)

\* A generator suspended at a yield holds both handles open, unclosed.
C3_Open ==
    (op = "select_iter" /\ genState = "suspended") =>
        /\ Len(yielded) >= 1
        /\ h.conn = "open" /\ h.cur = "open"
        /\ h.connCloses = 0 /\ h.curCloses = 0

\* A finished generator has closed what it opened, once.
C3_Closed ==
    (op = "select_iter" /\ genState = "finished") =>
        /\ path \in {"exhausted", "execute_error", "fetch_error"} => ClosedOnce(h)
        /\ path = "closed" => IF Len(yielded) >= 1 THEN ClosedOnce(h) ELSE h = NoHandles

\* A step from a finished generator yields nothing and touches no handle.
C3_NoFurtherBatch ==
    genState = "finished" => (yielded' = yielded /\ h' = h /\ genState' = "finished")

\* C3: a batch sequence that has yielded and is not finished holds its
\* connection and cursor open; once it is exhausted, closed by the consumer,
\* or an execute or fetch error ends it, the handles it opened are closed
\* exactly once each, and it yields no further batch.
C3_IterHandles == [](C3_Open /\ C3_Closed) /\ [][C3_NoFurtherBatch]_vars

C3_Witness ==
    /\ op = "select_iter" /\ genState = "finished" /\ path = "closed"
    /\ Len(yielded) >= 1 /\ ClosedOnce(h) /\ pos < Len(query.rs)

\* C4: with max_rows = m > 0, no batch is fetched once the rows yielded reach
\* m, so at most m + fetch_size - 1 rows are yielded.
C4_MaxRowsOvershoot ==
    (op = "select_iter" /\ truthy(args.max_rows)) =>
        /\ \A k \in DOMAIN yielded :
               Len(Concat(SubSeq(yielded, 1, k - 1))) < args.max_rows
        /\ TotalYielded <= args.max_rows + args.fetch_size - 1

\* C5: with max_rows = None, every batch is non-empty, every batch but the
\* last has exactly fetch_size rows, the batches in order are the result set
\* in order, and the sequence ends after the first fetch that returns no rows.
C5_Batches ==
    (op = "select_iter" /\ args.max_rows = None) =>
        /\ \A k \in DOMAIN yielded : Len(yielded[k]) >= 1
        /\ \A k \in DOMAIN yielded : k < Len(yielded) => Len(yielded[k]) = args.fetch_size
        /\ Concat(yielded) = build("dict", query.desc, SubSeq(query.rs, 1, TotalYielded))
        /\ path = "exhausted" =>
               /\ TotalYielded = Len(query.rs)
               /\ fetches = Len(yielded) + 1

C5_Witness ==
    /\ op = "select_iter" /\ args.max_rows = None /\ path = "exhausted"
    /\ Len(yielded) >= 2
    /\ Len(yielded[Len(yielded)]) < args.fetch_size
    /\ TotalYielded = Len(query.rs)

\* C6: every row a row factory builds holds the content of each LOB handle of
\* the raw row, read exactly once, and no raw LOB handle.
C6_LobsRead ==
    \A j \in DOMAIN built : \A v \in RowValues(built[j]) :
        /\ v.kind # "lob"
        /\ v.kind = "content" => Count(reads, v.id) = 1

\* The status table a poll of the job rows `rows` makes.
StatusTable(rows) == add_status(build("dict", PmColumns, rows))

PolledOk == op = "process_monitor" /\ pm.state = "done" /\ pm.fail = "none"

Calls(flag) == IF flag THEN 1 ELSE 0

\* C7: a poll of job rows that are all Finished calls on_success once with the
\* status table, returns that table, and does not call on_failure.
C7_AllFinishedSucceeds ==
    (PolledOk /\ pm.table # <<>> /\ branch(StatusTable(pm.table)) = "Complete") =>
        /\ pm.outcome = "returned"
        /\ pm.ret = StatusTable(pm.table)
        /\ pm.successCalls = Calls(pm.on_success)
        /\ pm.on_success => pm.cbArg = pm.ret
        /\ pm.failureCalls = 0

\* C8: a poll of job rows of which one is Failed calls on_failure once with
\* the status table and raises the failure; on_success is not called.
C8_AnyFailedRaises ==
    (PolledOk /\ branch(StatusTable(pm.table)) = "Failed") =>
        /\ pm.outcome = "Exception" /\ pm.exit = "failure"
        /\ pm.failureCalls = Calls(pm.on_failure)
        /\ pm.on_failure => pm.cbArg = StatusTable(pm.table)
        /\ pm.successCalls = 0

\* The call has ended at the loop test, or in a pass over a job table that
\* is not terminal.
NonTerminalEnd ==
    /\ op = "process_monitor" /\ pm.state = "done"
    /\ \/ pm.exit = "timeout"
       \/ pm.fail = "none" /\ pm.table # <<>>
             /\ branch(StatusTable(pm.table)) = "Working"

\* C9: a call whose polls all saw a non-terminal table ends with TimeOutError,
\* returns no table, calls no callback, and started no poll after the timeout.
C9_TimeoutSignalled ==
    NonTerminalEnd =>
        /\ pm.outcome = "TimeOutError"
        /\ pm.ret = <<>>
        /\ pm.successCalls = 0 /\ pm.failureCalls = 0
        /\ pm.lastPollAt - pm.start <= pm.timeout

\* C10: format_list raises ValueError and gives no string for more than 1000
\* items, and returns a string for 0 to 1000 items.
C10_Limit ==
    fmt.state = "done" =>
        /\ Len(fmt.items) >= 1001 => (fmt.result.exc = "ValueError" /\ ~fmt.result.isStr)
        /\ Len(fmt.items) <= 1000 => (fmt.result.exc = "None" /\ fmt.result.isStr)

C10_Witness ==
    /\ fmt.state = "done" /\ Len(fmt.items) = 1000
    /\ fmt.result.exc = "None" /\ fmt.result.isStr
    /\ Len(fmt.result.value) > 1000

\* One item as the list shows it: text in single quotes, a number bare.
Shown(it) == IF it.t = "str" THEN <<"'">> \o it.chars \o <<"'">> ELSE str(it.n)

\* The items in order with ", " between neighbours, built from the left.
RECURSIVE Rendered(_)
Rendered(items) ==
    IF items = <<>> THEN <<>>
    ELSE IF Len(items) = 1 THEN Shown(Head(items))
    ELSE Shown(Head(items)) \o <<",", " ">> \o Rendered(Tail(items))

\* A list of one item repeated shows as that item and ", " over and over,
\* less the last ", ".
RepeatedRendering(body, items) ==
    LET unit == Shown(items[1]) \o <<",", " ">>
        w == Len(unit)
    IN /\ Len(body) = Len(items) * w - 2
       /\ \A k \in DOMAIN body : body[k] = unit[((k - 1) % w) + 1]

\* What format_list returned, without the parentheses it was asked to add.
FmtBody ==
    IF fmt.parenthesis
    THEN SubSeq(fmt.result.value, 2, Len(fmt.result.value) - 1)
    ELSE fmt.result.value

\* C11: for at most 1000 items format_list returns the items in input order
\* joined by ", ", text in single quotes and numbers unquoted, in one pair of
\* parentheses exactly when parenthesis is true; ['a','b','c'] gives
\* ('a', 'b', 'c') and [1,2,'3'] without parentheses gives 1, 2, '3'.
C11_Rendering ==
    (fmt.state = "done" /\ Len(fmt.items) <= 1000) =>
        /\ fmt.result.isStr
        /\ fmt.parenthesis =>
              /\ Len(fmt.result.value) >= 2
              /\ Head(fmt.result.value) = "("
              /\ fmt.result.value[Len(fmt.result.value)] = ")"
        /\ Len(fmt.items) <= 16 => FmtBody = Rendered(fmt.items)
        /\ (fmt.items # <<>> /\ \A j \in DOMAIN fmt.items : fmt.items[j] = fmt.items[1])
              => RepeatedRendering(FmtBody, fmt.items)
        /\ (fmt.parenthesis
              /\ fmt.items = <<StrItem(<<"a">>), StrItem(<<"b">>), StrItem(<<"c">>)>>)
             => fmt.result.value =
                   <<"(", "'", "a", "'", ",", " ", "'", "b", "'", ",", " ",
                     "'", "c", "'", ")">>
        /\ (~fmt.parenthesis
              /\ fmt.items = <<IntItem(1), IntItem(2), StrItem(<<"3">>)>>)
             => fmt.result.value = <<"1", ",", " ", "2", ",", " ", "'", "3", "'">>

C11_Witness ==
    /\ fmt.state = "done" /\ ~fmt.parenthesis
    /\ fmt.items = <<IntItem(1), IntItem(2), StrItem(<<"3">>)>>
    /\ fmt.result.value = <<"1", ",", " ", "2", ",", " ", "'", "3", "'">>

\* The first column of a returned row, whatever its shape.
RowId(row) == IF "vals" \in DOMAIN row THEN row.vals[1] ELSE row["id"]

OtherRowtype(rowtype) == IF rowtype = "dict" THEN "namedtuple" ELSE "dict"

C13_SchemaApplied ==
    (op \in {"select", "select_iter"} /\ h.executed /\ self.schema # "None") =>
        h.schemaAtExecute = self.schema

\* The exit paths on which a call ends by raising.
RaisingPaths ==
    {"connect_error", "cursor_error", "execute_error", "rowfactory_error",
     "fetch_error"}

\* C14: after a select call, or a select_iter batch sequence, has ended by
\* raising, neither the connection nor the cursor it opened is still open,
\* whichever step raised: cursor creation and the installation of the row
\* factory included.
C14_NoHandleLeftOpen ==
    (/\ op \in {"select", "select_iter"}
     /\ path \in RaisingPaths
     /\ op = "select_iter" => genState = "finished") =>
        h.conn # "open" /\ h.cur # "open"

\* The requested process id has a row classified Finished in the table.
FinishedIn(df, id) ==
    \E j \in DOMAIN df : int(df[j]["prcsinstance"]) = id /\ df[j].status = "Finished"

DriverErrors == {"DatabaseError", "UnboundLocalError", "TypeError", "AttributeError"}

\* C16: with freq >= 1 and timeout >= 0, a call whose queries the driver all
\* answered with rows ends returning the table, raising the failure, or
\* raising the timeout, after at least one and at most timeout \div freq + 1
\* status queries, with one sleep after each query but the last.
C16_ThreeOutcomes ==
    (/\ op = "process_monitor" /\ pm.state = "done"
     /\ pm.freq >= 1 /\ pm.timeout >= 0
     /\ pm.outcome \notin DriverErrors) =>
        /\ \/ pm.outcome = "returned" /\ pm.exit = "success"
           \/ pm.outcome = "Exception" /\ pm.exit = "failure"
           \/ pm.outcome = "TimeOutError" /\ pm.exit = "timeout"
        /\ pm.polls >= 1
        /\ pm.polls <= (pm.timeout \div pm.freq) + 1
        /\ pm.sleeps = IF pm.exit = "timeout" THEN pm.polls ELSE pm.polls - 1

\* A batch sequence that was made and not started: nothing opened, nothing
\* executed, nothing raised.
C17_NotStarted ==
    (op = "select_iter" /\ genState = "created") =>
        /\ h = NoHandles
        /\ exc = "None" /\ path = "none"
        /\ fetches = 0 /\ yielded = <<>>

\* The call of select_iter itself leaves the handles alone and raises
\* nothing; the statement is executed, or its execution fails, in the step
\* that requests the first batch.
C17_CallAndFirstBatch ==
    /\ (op = "idle" /\ op' = "select_iter") =>
            h' = NoHandles /\ exc' = "None" /\ genState' = "created"
    /\ (op' = "select_iter" /\ (\/ h'.executed # h.executed
                                 \/ h'.conn # h.conn
                                 \/ (path' \in RaisingPaths /\ path # path'))) =>
            /\ op = "select_iter"
            /\ genState \in {"created", "suspended"}
            /\ (~h.executed /\ h.conn = "none") => (genState = "created" /\ fetches = 0)

\* C17: calling select_iter opens no connection and executes nothing; a
\* batch sequence made and never started holds no open connection or
\* cursor; the connection is opened and the statement executed, and an
\* execution error raised, only by the request for the first batch.
C17_Lazy == []C17_NotStarted /\ [][C17_CallAndFirstBatch]_vars

C17_Witness ==
    /\ op = "select_iter" /\ genState = "finished"
    /\ path = "execute_error" /\ exc = "DatabaseError"
    /\ fetches = 0 /\ ClosedOnce(h)

Classes == {"Finished", "Working", "Failed"}

\* C18: every run status code is classified Finished, Working or Failed,
\* and every status table takes exactly one of the branches Complete (all
\* rows Finished), Failed (some row Failed), Working (some row Working, none
\* Failed, not all Finished): never the branch 'Something went wrong.'.
C18_ThreeBranches ==
    (op = "classify" /\ pm.state = "classified") =>
        LET df == pm.df
            allFinished == \A j \in DOMAIN df : df[j].status = "Finished"
            anyFailed == \E j \in DOMAIN df : df[j].status = "Failed"
            anyWorking == \E j \in DOMAIN df : df[j].status = "Working"
        IN /\ Len(df) = Len(pm.table)
           /\ \A j \in DOMAIN df : df[j].status \in Classes
           /\ pm.status \in {"Complete", "Failed", "Working"}
           /\ pm.status = "Complete" <=> allFinished
           /\ pm.status = "Failed" <=> (anyFailed /\ ~allFinished)
           /\ pm.status = "Working" <=> (anyWorking /\ ~anyFailed /\ ~allFinished)
           /\ anyFailed => ~allFinished

C18_Witness ==
    /\ op = "classify" /\ pm.state = "classified"
    /\ Len(pm.df) = 2
    /\ pm.df[1].status = "Finished" /\ pm.df[2].status = "Working"
    /\ pm.status = "Working"

====
